---------------------------- MODULE Spec2Model ----------------------------
(***************************************************************************)
(* Model of the block store of lepton_jpeg_rust:                           *)
(*   src/structs/block_based_image.rs  (AlignedBlock, BlockBasedImage)     *)
(*   src/structs/block_context.rs      (BlockContext)                      *)
(*                                                                         *)
(* A fatal failure (assert!, panic!, unwrap on None, index out of bounds)  *)
(* is modelled by the flag `panicked`; no operation runs after it.         *)
(***************************************************************************)
EXTENDS Integers, Sequences, FiniteSets, TLC

VARIABLES
    blk,       \* AlignedBlock under test: raw_data, a function 0..63 -> i16;
               \* in SpecFill the block get_block returned
    oldBlk,    \* history: raw_data before the last block operation
    lastOp,    \* history: the last block or store operation and its arguments
    hdr,       \* JPegHeader.cmp_info: sequence of [bch, bcv], luma first
    args,      \* arguments of the pending / last call of new or merge, or
               \* the loop variables of a traversal
    store,     \* one BlockBasedImage
    written,   \* history, by specification: global position -> data last
               \* written (SpecStore); the store before the last call
               \* (SpecFill); the stores handed to merge (SpecMerge, SpecPar);
               \* the summary index of each block visited (SpecWalk)
    images,    \* Vec<Vec<BlockBasedImage>>: images[thread][component]
    wpos,      \* per worker: [cmp, pos] of its next write
    merged,    \* per component: result of merge, or NoStore
    ctx,       \* the BlockContext cursor, or NoCtx
    phase,     \* position of the traversal loop body
    visited,   \* history: positions the traversal has visited, in order
    result,    \* history: value returned by the last query
    panicked   \* a fatal failure has happened

vars == <<blk, oldBlk, lastOp, hdr, args, store, written, images, wpos,
          merged, ctx, phase, visited, result, panicked>>

blockVars  == <<blk, oldBlk, lastOp>>
storeVars  == <<store, written>>
parVars    == <<images, wpos, merged>>
cursorVars == <<ctx, phase, visited, result>>

-----------------------------------------------------------------------------
(* Bounds of the model *)

MaxCoeff == 1        \* coefficients written are in -MaxCoeff..MaxCoeff
MaxWidth == 3        \* block_width (bch) of a component is in 1..MaxWidth
MaxHeight == 3       \* block height (bcv) of a component is in 1..MaxHeight
MaxLumaHeight == 4   \* block height of the luma component, for new alone
StoreMaxWidth == 3   \* block_width of the single store that is filled
StoreMaxHeight == 2  \* block height of the single store that is filled
MaxDc == 1           \* DC values of the blocks written are in 0..MaxDc
MaxWrites == 3       \* calls of set_block_data on the single store
MaxThreads == 2      \* threads whose stores are handed to merge as they are
ParMaxThreads == 3   \* workers of the parallel fill
ParMaxWidth == 2     \* luma block_width in the parallel fill
ParMaxHeight == 3    \* luma block height in the parallel fill
WalkMaxWidth == 4    \* block_width of the store that is walked
WalkMaxHeight == 5   \* block height of the store that is walked
MaxMergeOffset == 2  \* dpos_offset of a store handed to merge as it is
MaxMergeLen == 1     \* blocks held by a store handed to merge as it is
CurMaxWidth == 3     \* block_width of the store a free cursor runs over
CurMaxRow == 3       \* rows 0..CurMaxRow are given to off_y for a free cursor
MaxNexts == 5        \* calls of next on a free cursor
FillMaxWidth == 2    \* block_width of the store the fill operations run on
FillMaxHeight == 2   \* block height of the store the fill operations run on
MaxFillOps == 2      \* operations on the store the fill operations run on

Coeffs == (-MaxCoeff)..MaxCoeff

-----------------------------------------------------------------------------
(* AlignedBlock *)

BlockIdx == 0..63

\* crate::consts::ALIGNED_BLOCK_INDEX_DC_INDEX: the 7x7 square (49 slots)
\* comes first, followed by the DC, followed by the edges.
ALIGNED_BLOCK_INDEX_DC_INDEX == 49

\* crate::consts::ZIGZAG_TO_ALIGNED, indexed from 0 by ZigzagToAligned below.
ZIGZAG_TO_ALIGNED ==
    << 49, 50, 57, 58,  0, 51, 52,  1,  2, 59, 60,  3,  4,  5, 53, 54,
        6,  7,  8,  9, 61, 62, 10, 11, 12, 13, 14, 55, 56, 15, 16, 17,
       18, 19, 20, 63, 21, 22, 23, 24, 25, 26, 27, 28, 29, 30, 31, 32,
       33, 34, 35, 36, 37, 38, 39, 40, 41, 42, 43, 44, 45, 46, 47, 48 >>

ZigzagToAligned(index) == ZIGZAG_TO_ALIGNED[index + 1]

\* static EMPTY: AlignedBlock { raw_data: [0; 64] }
EMPTY == [i \in BlockIdx |-> 0]

get_dc(b) == b[ALIGNED_BLOCK_INDEX_DC_INDEX]

set_dc(b, value) == [b EXCEPT ![ALIGNED_BLOCK_INDEX_DC_INDEX] = value]

get_coefficient(b, index) == b[index]

set_coefficient(b, index, v) == [b EXCEPT ![index] = v]

\* a slip: the index is used without translation
set_coefficient_zigzag_untranslated(b, index, v) == [b EXCEPT ![index] = v]

set_coefficient_zigzag(b, index, v) == [b EXCEPT ![ZigzagToAligned(index)] = v]

get_coefficient_zigzag(b, index) == b[ZigzagToAligned(index)]

\* the loop `for index in 0..49`, num_non_zeros7x7 a u8
RECURSIVE CountLoop(_, _, _, _)
CountLoop(b, index, end, acc) ==
    IF index >= end THEN acc
    ELSE CountLoop(b, index + 1, end,
                   IF b[index] # 0 THEN (acc + 1) % 256 ELSE acc)

\* a slip: the loop also covers the DC slot
get_count_of_non_zeros_7x7_incl_dc(b) == CountLoop(b, 0, 50, 0)

get_count_of_non_zeros_7x7(b) == CountLoop(b, 0, 49, 0)

\* a block whose only non-zero coefficient is the DC
BlockOfDc(d) == set_dc(EMPTY, d)

-----------------------------------------------------------------------------
(* Machine integers *)

\* Rust's `/` on signed integers truncates toward zero (b > 0 here)
TruncDiv(a, b) == IF a >= 0 THEN a \div b ELSE -((-a) \div b)

\* The range of usize. The target's 2^64 is beyond the integers of the model
\* checker; every length and position of the model is far below 2^30, so the
\* order of a wrapped negative value and a length is the same.
UsizeRange == 2^30

\* `x as usize` for an i32 x: a negative value wraps to the top of the range
AsUsize(x) == IF x < 0 THEN x + UsizeRange ELSE x

-----------------------------------------------------------------------------
(* BlockBasedImage *)

\* jpeg_header.cmp_info[component], components counted from 0
CmpInfo(cmp_info, component) == cmp_info[component + 1]

MkStore(bw, oh, off, img, cap) ==
    [block_width |-> bw, original_height |-> oh, dpos_offset |-> off,
     image |-> img, capacity |-> cap]

\* a slip: the round-up term left out
ImageCapacityNoRoundUp(max_size, luma_y_start, luma_y_end, luma_bcv) ==
    TruncDiv(max_size * (luma_y_end - luma_y_start), luma_bcv)

\* image_capcity of new
ImageCapacity(max_size, luma_y_start, luma_y_end, luma_bcv) ==
    TruncDiv(max_size * (luma_y_end - luma_y_start) + (luma_bcv - 1), luma_bcv)

\* dpos_offset of new
DposOffset(max_size, luma_y_start, luma_bcv) ==
    TruncDiv(max_size * luma_y_start, luma_bcv)

\* BlockBasedImage::new. usize::try_from(..).unwrap() fails on a negative
\* capacity; the result is [ok, store].
new(cmp_info, component, luma_y_start, luma_y_end) ==
    LET block_width     == CmpInfo(cmp_info, component).bch
        original_height == CmpInfo(cmp_info, component).bcv
        max_size        == block_width * original_height
        luma_bcv        == CmpInfo(cmp_info, 0).bcv
        image_capcity   == ImageCapacity(max_size, luma_y_start, luma_y_end,
                                         luma_bcv)
        dpos_offset     == DposOffset(max_size, luma_y_start, luma_bcv)
    IN  IF image_capcity < 0
        THEN [ok |-> FALSE, store |-> MkStore(0, 0, 0, <<>>, 0)]
        ELSE [ok |-> TRUE,
              store |-> MkStore(block_width, original_height, dpos_offset,
                                <<>>, image_capcity)]

\* a slip: the store grows past its capacity
FillLoopNoLimit(s, slot) ==
    IF Len(s.image) <= slot
    THEN [ok |-> TRUE,
          store |-> [s EXCEPT !.image =
                        @ \o [i \in 1..(slot + 1 - Len(@)) |-> EMPTY]]]
    ELSE [ok |-> TRUE, store |-> s]

\* the loop of fill_up_to_dpos: push zero blocks until slot `slot` exists;
\* "out of memory" when the length has reached the capacity
RECURSIVE FillLoop(_, _)
FillLoop(s, slot) ==
    IF Len(s.image) <= slot
    THEN IF Len(s.image) >= s.capacity
         THEN [ok |-> FALSE, store |-> s]
         ELSE FillLoop([s EXCEPT !.image = Append(@, EMPTY)], slot)
    ELSE [ok |-> TRUE, store |-> s]

\* a slip: an empty store takes its first block at any position
fill_up_to_dpos_any_first(s, dpos) ==
    IF ~(dpos >= s.dpos_offset) THEN [ok |-> FALSE, store |-> s]
    ELSE FillLoop(s, AsUsize(dpos - s.dpos_offset))

\* BlockBasedImage::fill_up_to_dpos; the result is [ok, store], the store
\* being the one the failure leaves behind when ok is FALSE
fill_up_to_dpos(s, dpos) ==
    IF Len(s.image) = 0 /\ s.dpos_offset # dpos THEN [ok |-> FALSE, store |-> s]
    ELSE IF ~(dpos >= s.dpos_offset) THEN [ok |-> FALSE, store |-> s]
    ELSE FillLoop(s, AsUsize(dpos - s.dpos_offset))

\* a slip: the global position is used as the slot, without dpos_offset
set_block_data_global_slot(s, dpos, block_data) ==
    LET f == fill_up_to_dpos(s, dpos)
    IN  IF ~f.ok \/ dpos < 0 \/ dpos >= Len(f.store.image)
        THEN [ok |-> FALSE, store |-> f.store]
        ELSE [ok |-> TRUE,
              store |-> [f.store EXCEPT !.image[dpos + 1] = block_data]]

\* BlockBasedImage::set_block_data
set_block_data(s, dpos, block_data) ==
    LET f == fill_up_to_dpos(s, dpos)
    IN  IF ~f.ok THEN f
        ELSE [ok |-> TRUE,
              store |-> [f.store EXCEPT
                           !.image[AsUsize(dpos - s.dpos_offset) + 1] = block_data]]

\* a slip: the bound is taken on the global position
get_block_global_bound(s, dpos) ==
    IF AsUsize(dpos) >= Len(s.image) \/ dpos - s.dpos_offset < 0 THEN EMPTY
    ELSE s.image[AsUsize(dpos - s.dpos_offset) + 1]

\* BlockBasedImage::get_block
get_block(s, dpos) ==
    IF AsUsize(dpos - s.dpos_offset) >= Len(s.image) THEN EMPTY
    ELSE s.image[AsUsize(dpos - s.dpos_offset) + 1]

\* BlockBasedImage::get_block_mut: [ok, store, slot], slot the index (from 0)
\* of the block the returned reference points to
get_block_mut(s, dpos) ==
    LET f == fill_up_to_dpos(s, dpos)
    IN  [ok |-> f.ok, store |-> f.store, slot |-> AsUsize(dpos - s.dpos_offset)]

\* `&slice[(pos - dpos_offset) as usize].get_block()` for a neighbour, or the
\* EMPTY block for the sentinel -1; the index is checked against the slice
NeighbourOk(s, pos, slice_len) ==
    pos = -1 \/ AsUsize(pos - s.dpos_offset) < slice_len

Neighbour(s, pos) ==
    IF pos = -1 THEN EMPTY ELSE s.image[AsUsize(pos - s.dpos_offset) + 1]

\* BlockBasedImage::get_blocks_mut: the neighbours are read from `first`, the
\* part of the image before `here`. The result is [ok, store, above, left,
\* above_left, here], here the slot of the block returned mutably.
get_blocks_mut(s, above, left, above_left, here) ==
    LET f         == fill_up_to_dpos(s, here)
        first_len == AsUsize(here - s.dpos_offset)
        ok        == /\ f.ok
                     /\ NeighbourOk(f.store, above, first_len)
                     /\ NeighbourOk(f.store, left, first_len)
                     /\ NeighbourOk(f.store, above_left, first_len)
    IN  [ok |-> ok, store |-> f.store,
         above      |-> IF ok THEN Neighbour(f.store, above) ELSE EMPTY,
         left       |-> IF ok THEN Neighbour(f.store, left) ELSE EMPTY,
         above_left |-> IF ok THEN Neighbour(f.store, above_left) ELSE EMPTY,
         here       |-> first_len]

\* BlockBasedImage::get_blocks: every index is checked against the image
get_blocks(s, above, left, above_left, here) ==
    LET ok == /\ NeighbourOk(s, above, Len(s.image))
              /\ NeighbourOk(s, left, Len(s.image))
              /\ NeighbourOk(s, above_left, Len(s.image))
              /\ AsUsize(here - s.dpos_offset) < Len(s.image)
    IN  [ok |-> ok, store |-> s,
         above      |-> IF ok THEN Neighbour(s, above) ELSE EMPTY,
         left       |-> IF ok THEN Neighbour(s, left) ELSE EMPTY,
         above_left |-> IF ok THEN Neighbour(s, above_left) ELSE EMPTY,
         here       |-> AsUsize(here - s.dpos_offset)]

\* Option<i32>: None is <<>>, Some(w) is <<w>>
None == <<>>
Some(w) == <<w>>

\* a slip: the blocks of every component of thread t are moved out
DrainedEveryComponent(imgs, t, index) ==
    [imgs EXCEPT ![t] = [c \in DOMAIN @ |-> [@[c] EXCEPT !.image = <<>>]]]

\* images with the blocks of thread t's store of component `index` moved out
\* (Vec::append leaves the source empty)
Drained(imgs, t, index) == [imgs EXCEPT ![t][index + 1].image = <<>>]

\* a slip: the offset of the next store is not checked
MergeOffsetUnchecked(v, contents) == TRUE

\* assert!(v[index].dpos_offset == contents.len() as i32)
MergeOffsetOk(v, contents) == v.dpos_offset = Len(contents)

\* a slip: the geometry of the next store is not compared
MergeGeometryUnchecked(expected, actual) == TRUE

\* the match on block_width, and on original_height: the first store sets
\* the value, every later one is asserted to have it
MergeGeometryOk(expected, actual) ==
    expected = None \/ expected = Some(actual)

\* a slip: the blocks of the next store are put in front
MergePrepend(contents, image) == image \o contents

\* contents.append(&mut v[index].image)
MergeAppend(contents, image) == contents \o image

\* the loop `for v in images` of merge, from thread t on; ok is FALSE when an
\* assertion fails, and at the end when block_width or original_height is
\* still None (unwrap)
RECURSIVE MergeLoop(_, _, _, _, _, _)
MergeLoop(imgs, index, t, contents, block_width, original_height) ==
    IF t > Len(imgs)
    THEN [ok |-> block_width # None /\ original_height # None,
          images |-> imgs, contents |-> contents,
          block_width |-> block_width, original_height |-> original_height]
    ELSE LET v == imgs[t][index + 1]
         IN  IF \/ ~MergeOffsetOk(v, contents)
                \/ ~MergeGeometryOk(block_width, v.block_width)
                \/ ~MergeGeometryOk(original_height, v.original_height)
             THEN [ok |-> FALSE, images |-> imgs, contents |-> contents,
                   block_width |-> block_width,
                   original_height |-> original_height]
             ELSE MergeLoop(Drained(imgs, t, index), index, t + 1,
                            MergeAppend(contents, v.image),
                            Some(v.block_width),
                            Some(v.original_height))

\* total_size of merge
RECURSIVE TotalSize(_, _, _)
TotalSize(imgs, index, t) ==
    IF t > Len(imgs) THEN 0
    ELSE Len(imgs[t][index + 1].image) + TotalSize(imgs, index, t + 1)

\* BlockBasedImage::merge: [ok, merged, images], images being the input as
\* the call leaves it
merge(imgs, index) ==
    LET total_size == TotalSize(imgs, index, 1)
        r == MergeLoop(imgs, index, 1, <<>>, None, None)
    IN  [ok |-> r.ok,
         images |-> r.images,
         merged |-> IF r.ok
                    THEN MkStore(r.block_width[1], r.original_height[1], 0,
                                 r.contents, total_size)
                    ELSE MkStore(0, 0, 0, <<>>, 0)]

-----------------------------------------------------------------------------
(* BlockContext *)

\* BlockContext::new
BlockContext_new(cur_block_index, above_block_index, cur_num_non_zeros_index, above_num_non_zero_index, image_data) ==
    [block_width              |-> image_data.block_width,
     cur_block_index          |-> cur_block_index,
     above_block_index        |-> above_block_index,
     cur_num_non_zeros_index  |-> cur_num_non_zeros_index,
     above_num_non_zero_index |-> above_num_non_zero_index]

\* a slip: the row index is used as the block position
off_y_unscaled(s, y) ==
    BlockContext_new(y,
                     IF y # 0 THEN y - 1 ELSE -1,
                     IF (y % 2) # 0 THEN s.block_width ELSE 0,
                     IF (y % 2) # 0 THEN 0 ELSE s.block_width,
                     s)

\* a slip: the block above is taken from the row itself
off_y_above_same_row(s, y) ==
    BlockContext_new(s.block_width * y,
                     IF y # 0 THEN s.block_width * y ELSE -1,
                     IF (y % 2) # 0 THEN s.block_width ELSE 0,
                     IF (y % 2) # 0 THEN 0 ELSE s.block_width,
                     s)

\* BlockBasedImage::off_y; y & 1 is y % 2
off_y(s, y) ==
    BlockContext_new(s.block_width * y,
                     IF y # 0 THEN s.block_width * (y - 1) ELSE -1,
                     IF (y % 2) # 0 THEN s.block_width ELSE 0,
                     IF (y % 2) # 0 THEN 0 ELSE s.block_width,
                     s)

\* a slip: the comparison is the wrong way round
CurRowFirstReversed(c) ==
    c.cur_num_non_zeros_index > c.above_num_non_zero_index

\* cur_row_first of next
CurRowFirst(c) ==
    c.cur_num_non_zeros_index < c.above_num_non_zero_index

\* next winding the summary index back by one row instead of two
next_wind_one_row(c, has_more) ==
    LET cur  == c.cur_block_index + 1
        c1   == [c EXCEPT
                   !.cur_block_index = cur,
                   !.above_block_index =
                       IF cur < c.block_width THEN cur + c.block_width
                       ELSE cur - c.block_width,
                   !.cur_num_non_zeros_index = @ + 1,
                   !.above_num_non_zero_index = @ + 1]
        c2   == IF ~has_more
                THEN IF CurRowFirst(c1)
                     THEN [c1 EXCEPT !.above_num_non_zero_index =
                                        @ - c1.block_width]
                     ELSE [c1 EXCEPT !.cur_num_non_zeros_index =
                                        @ - c1.block_width]
                ELSE c1
    IN  [ctx |-> c2, retval |-> cur]

\* next taking the first block of row 1 for a block of row 0
next_above_le(c, has_more) ==
    LET cur  == c.cur_block_index + 1
        c1   == [c EXCEPT
                   !.cur_block_index = cur,
                   !.above_block_index =
                       IF cur <= c.block_width THEN cur + c.block_width
                       ELSE cur - c.block_width,
                   !.cur_num_non_zeros_index = @ + 1,
                   !.above_num_non_zero_index = @ + 1]
        c2   == IF ~has_more
                THEN IF CurRowFirst(c1)
                     THEN [c1 EXCEPT !.above_num_non_zero_index =
                                        @ - c1.block_width * 2]
                     ELSE [c1 EXCEPT !.cur_num_non_zeros_index =
                                        @ - c1.block_width * 2]
                ELSE c1
    IN  [ctx |-> c2, retval |-> cur]

\* BlockContext::next: [ctx, retval]
next(c, has_more) ==
    LET cur  == c.cur_block_index + 1
        c1   == [c EXCEPT
                   !.cur_block_index = cur,
                   !.above_block_index =
                       IF cur < c.block_width THEN cur + c.block_width
                       ELSE cur - c.block_width,
                   !.cur_num_non_zeros_index = @ + 1,
                   !.above_num_non_zero_index = @ + 1]
        c2   == IF ~has_more
                THEN IF CurRowFirst(c1)
                     THEN [c1 EXCEPT !.above_num_non_zero_index =
                                        @ - c1.block_width * 2]
                     ELSE [c1 EXCEPT !.cur_num_non_zeros_index =
                                        @ - c1.block_width * 2]
                ELSE c1
    IN  [ctx |-> c2, retval |-> cur]

\* the neighbour positions a cursor hands to the store
AbovePos(c, above_present) ==
    IF above_present THEN c.above_block_index ELSE -1

LeftPos(c, left_present) ==
    IF left_present THEN c.cur_block_index - 1 ELSE -1

AboveLeftPos(c, left_present, above_present) ==
    IF above_present /\ left_present THEN c.above_block_index - 1 ELSE -1

\* a slip: the two flags are taken in the other order
BlockContext_get_blocks_mut_swapped(c, image_data, left_present, above_present) ==
    get_blocks_mut(image_data,
                   AbovePos(c, left_present),
                   LeftPos(c, above_present),
                   AboveLeftPos(c, left_present, above_present),
                   c.cur_block_index)

\* BlockContext::get_blocks_mut
BlockContext_get_blocks_mut(c, image_data, left_present, above_present) ==
    get_blocks_mut(image_data,
                   AbovePos(c, above_present),
                   LeftPos(c, left_present),
                   AboveLeftPos(c, left_present, above_present),
                   c.cur_block_index)

\* BlockContext::neighbor_context_here, _above and _left, get_non_zeros_above
\* and _left: each is the index (as usize) of the entry of the caller's
\* summary array that it selects
neighbor_context_here(c) == AsUsize(c.cur_num_non_zeros_index)

neighbor_context_above(c) == AsUsize(c.above_num_non_zero_index)

\* a slip: the entry of the block itself is taken for its left neighbour's
neighbor_context_left_here(c) == AsUsize(c.cur_num_non_zeros_index)

neighbor_context_left(c) == AsUsize(c.cur_num_non_zeros_index - 1)

get_non_zeros_above(c) == AsUsize(c.above_num_non_zero_index)

get_non_zeros_left(c) == AsUsize(c.cur_num_non_zeros_index - 1)

\* BlockContext::get_blocks
BlockContext_get_blocks(c, image_data, left_present, above_present) ==
    get_blocks(image_data,
               AbovePos(c, above_present),
               LeftPos(c, left_present),
               AboveLeftPos(c, left_present, above_present),
               c.cur_block_index)

-----------------------------------------------------------------------------
(* Values of the variables a specification does not use *)

NoOp    == [op |-> "none", index |-> 0, value |-> 0]
NoStore == MkStore(0, 0, 0, <<>>, 0)
NoCtx   == [block_width |-> 0, cur_block_index |-> 0, above_block_index |-> 0,
            cur_num_non_zeros_index |-> 0, above_num_non_zero_index |-> 0]
NoArgs  == [op |-> "none"]

BlockIdle  == blk = EMPTY /\ oldBlk = EMPTY /\ lastOp = NoOp
StoreIdle  == store = NoStore /\ written = <<>>
ParIdle    == images = <<>> /\ wpos = <<>> /\ merged = <<>>
CursorIdle == ctx = NoCtx /\ phase = "idle" /\ visited = <<>> /\ result = <<>>

-----------------------------------------------------------------------------
(* Specification of one AlignedBlock: one operation applied to each of the  *)
(* initial blocks                                                           *)

\* blocks an AlignedBlock may hold when the operations start: raw_data is
\* plain data, copied in by set_block_data
InitBlocks ==
    { [i \in BlockIdx |-> IF lo <= i /\ i < hi THEN 1 ELSE 0] :
        lo \in {0, 49}, hi \in {0, 48, 49, 50, 64} }

BlockInit ==
    /\ blk \in InitBlocks
    /\ oldBlk = blk
    /\ lastOp = NoOp
    /\ hdr = <<>> /\ args = NoArgs /\ panicked = FALSE
    /\ StoreIdle /\ ParIdle /\ CursorIdle

BlockFrame == UNCHANGED <<hdr, args, storeVars, parVars, cursorVars, panicked>>

SetDc ==
    /\ lastOp = NoOp
    /\ \E v \in Coeffs :
        /\ blk' = set_dc(blk, v)
        /\ lastOp' = [op |-> "set_dc", index |-> ALIGNED_BLOCK_INDEX_DC_INDEX,
                      value |-> v]
    /\ oldBlk' = blk
    /\ BlockFrame

SetCoefficient ==
    /\ lastOp = NoOp
    /\ \E i \in BlockIdx, v \in Coeffs :
        /\ blk' = set_coefficient(blk, i, v)
        /\ lastOp' = [op |-> "set_coefficient", index |-> i, value |-> v]
    /\ oldBlk' = blk
    /\ BlockFrame

SetCoefficientZigzag ==
    /\ lastOp = NoOp
    /\ \E i \in BlockIdx, v \in Coeffs :
        /\ blk' = set_coefficient_zigzag(blk, i, v)
        /\ lastOp' = [op |-> "set_coefficient_zigzag", index |-> i, value |-> v]
    /\ oldBlk' = blk
    /\ BlockFrame

BlockNext == SetDc \/ SetCoefficient \/ SetCoefficientZigzag

SpecBlock == BlockInit /\ [][BlockNext]_vars

-----------------------------------------------------------------------------
(* C9: after set_coefficient_zigzag(i, v), get_coefficient_zigzag(i) is v,  *)
(* get_coefficient_zigzag(j) is unchanged for every j # i, the table is a   *)
(* bijection on 0..63, and the value is the one get_coefficient reads at    *)
(* the table-translated aligned index.                                      *)
ZigzagRoundTrip ==
    /\ Cardinality({ZigzagToAligned(z) : z \in BlockIdx} \cap BlockIdx) = 64
    /\ lastOp.op = "set_coefficient_zigzag" =>
        /\ get_coefficient_zigzag(blk, lastOp.index) = lastOp.value
        /\ get_coefficient(blk, ZigzagToAligned(lastOp.index)) = lastOp.value
        /\ \A j \in BlockIdx \ {lastOp.index} :
              get_coefficient_zigzag(blk, j) = get_coefficient_zigzag(oldBlk, j)

ZigzagRoundTripWitness ==
    /\ lastOp.op = "set_coefficient_zigzag"
    /\ lastOp.index = 5
    /\ lastOp.value = -1
    /\ oldBlk[ZigzagToAligned(5)] = 1
    /\ oldBlk[5] = 1
    /\ get_coefficient_zigzag(blk, 5) = -1

(* C10: get_count_of_non_zeros_7x7 is the number of non-zero coefficients   *)
(* at aligned indices 0..48: it is within 0..49, and set_dc or a write at   *)
(* an aligned index >= 49 leaves it unchanged.                              *)
CountOnly7x7 ==
    /\ get_count_of_non_zeros_7x7(blk) = Cardinality({i \in 0..48 : blk[i] # 0})
    /\ get_count_of_non_zeros_7x7(blk) \in 0..49
    /\ (\/ lastOp.op = "set_dc"
        \/ lastOp.op = "set_coefficient" /\ lastOp.index >= 49) =>
          get_count_of_non_zeros_7x7(blk) = get_count_of_non_zeros_7x7(oldBlk)

CountOnly7x7Witness ==
    /\ lastOp.op = "set_dc"
    /\ get_dc(oldBlk) = 0
    /\ get_dc(blk) # 0
    /\ get_count_of_non_zeros_7x7(blk) = 49

-----------------------------------------------------------------------------
(* Specification of BlockBasedImage::new: one call on each geometry and     *)
(* row range                                                                *)

Geometries == [bch : 1..MaxWidth, bcv : 1..MaxHeight]

NewInit ==
    /\ \E luma \in [bch : 1..MaxWidth, bcv : 1..MaxLumaHeight],
          chroma \in Geometries :
          hdr = <<luma, chroma>>
    /\ \E c \in 0..1, ys \in 0..MaxLumaHeight, ye \in 0..MaxLumaHeight :
          /\ ys <= CmpInfo(hdr, 0).bcv
          /\ ye <= CmpInfo(hdr, 0).bcv
          /\ args = [op |-> "new", component |-> c, luma_y_start |-> ys,
                     luma_y_end |-> ye, returned |-> FALSE]
    /\ panicked = FALSE
    /\ BlockIdle /\ StoreIdle /\ ParIdle /\ CursorIdle

New ==
    /\ args.op = "new" /\ ~args.returned /\ ~panicked
    /\ LET r == new(hdr, args.component, args.luma_y_start, args.luma_y_end)
       IN  /\ store' = IF r.ok THEN r.store ELSE store
           /\ panicked' = ~r.ok
           /\ args' = [args EXCEPT !.returned = r.ok]
    /\ UNCHANGED <<blockVars, hdr, written, parVars, cursorVars>>

NewNext == New

SpecNew == NewInit /\ [][NewNext]_vars

\* the call of new that has returned had a valid row range
NewReturnedValid ==
    /\ args.op = "new" /\ args.returned
    /\ 0 <= args.luma_y_start
    /\ args.luma_y_start < args.luma_y_end
    /\ args.luma_y_end <= CmpInfo(hdr, 0).bcv

NewArea == CmpInfo(hdr, args.component).bch * CmpInfo(hdr, args.component).bcv

\* q = floor(n / d) and q = ceil(n / d), for d > 0, stated without division
IsFloor(q, n, d) == q * d <= n /\ n < (q + 1) * d
IsCeil(q, n, d)  == (q - 1) * d < n /\ n <= q * d

\* the first global block position of luma row y: floor(area * y / luma height)
IsFirstPos(q, y) == IsFloor(q, NewArea * y, CmpInfo(hdr, 0).bcv)

(* C4, as claimed: for a valid row range the store built by new has        *)
(* dpos_offset = floor(area * y_start / luma_height), capacity =           *)
(* ceil(area * (y_end - y_start) / luma_height), and the capacity is the    *)
(* exact number of positions of the range: first position of y_end minus    *)
(* first position of y_start.                                               *)
NewCapacityExact ==
    NewReturnedValid =>
        /\ IsFirstPos(store.dpos_offset, args.luma_y_start)
        /\ IsCeil(store.capacity, NewArea * (args.luma_y_end - args.luma_y_start),
                  CmpInfo(hdr, 0).bcv)
        /\ IsFirstPos(store.dpos_offset + store.capacity, args.luma_y_end)

(* C4, amended: dpos_offset and capacity are the stated floor and ceiling;  *)
(* the capacity is at least the number of positions of the range and at     *)
(* most one more, and is exact whenever area * (y_end - y_start) is a       *)
(* multiple of the luma height.                                             *)
NewCapacityCovers ==
    NewReturnedValid =>
        /\ store.block_width = CmpInfo(hdr, args.component).bch
        /\ store.original_height = CmpInfo(hdr, args.component).bcv
        /\ store.image = <<>>
        /\ IsFirstPos(store.dpos_offset, args.luma_y_start)
        /\ IsCeil(store.capacity, NewArea * (args.luma_y_end - args.luma_y_start),
                  CmpInfo(hdr, 0).bcv)
        /\ \/ IsFirstPos(store.dpos_offset + store.capacity, args.luma_y_end)
           \/ IsFirstPos(store.dpos_offset + store.capacity - 1, args.luma_y_end)
        /\ (NewArea * (args.luma_y_end - args.luma_y_start))
              % CmpInfo(hdr, 0).bcv = 0
           => IsFirstPos(store.dpos_offset + store.capacity, args.luma_y_end)

\* a range whose capacity is one more than its number of positions
NewCapacityCoversWitness ==
    /\ NewReturnedValid
    /\ args.luma_y_start > 0
    /\ IsFirstPos(store.dpos_offset + store.capacity - 1, args.luma_y_end)

-----------------------------------------------------------------------------
(* Specification of one store filled by set_block_data                      *)

\* the blocks handed to set_block_data
DataBlocks == {BlockOfDc(d) : d \in 0..MaxDc}

StoreGeometries == [bch : 1..StoreMaxWidth, bcv : 1..StoreMaxHeight]

\* global positions used as arguments: one before the first and one after
\* the last position of the largest component
StorePositions == (-1)..(StoreMaxWidth * StoreMaxHeight)

NotWritten == <<>>

StoreInit ==
    /\ \E luma_bcv \in 1..StoreMaxHeight, g \in StoreGeometries :
          hdr = <<[bch |-> g.bch, bcv |-> luma_bcv], g>>
    /\ \E ys \in 0..StoreMaxHeight, ye \in 0..StoreMaxHeight :
          /\ ys < ye /\ ye <= CmpInfo(hdr, 0).bcv
          /\ args = [op |-> "new", component |-> 1, luma_y_start |-> ys,
                     luma_y_end |-> ye, returned |-> TRUE]
          /\ store = new(hdr, 1, ys, ye).store
    /\ written = [p \in StorePositions |-> NotWritten]
    /\ lastOp = NoOp
    /\ panicked = FALSE
    /\ blk = EMPTY /\ oldBlk = EMPTY /\ ParIdle /\ CursorIdle

SetBlockData ==
    /\ ~panicked
    /\ lastOp.index < MaxWrites
    /\ \E dpos \in StorePositions, data \in DataBlocks :
        LET r == set_block_data(store, dpos, data)
        IN  /\ store' = r.store
            /\ panicked' = ~r.ok
            /\ written' = IF r.ok THEN [written EXCEPT ![dpos] = data]
                          ELSE written
            /\ lastOp' = [op |-> "set_block_data", index |-> lastOp.index + 1,
                          value |-> dpos]
    /\ UNCHANGED <<blk, oldBlk, hdr, args, parVars, cursorVars>>

StoreNext == SetBlockData

SpecStore == StoreInit /\ [][StoreNext]_vars

(* C3: after successful set_block_data calls, get_block(p) is the block     *)
(* last written at p for every written p and the all-zero block for every   *)
(* other p: skipped, at or beyond dpos_offset + length, below dpos_offset.  *)
GetBlockReadsLastWrite ==
    ~panicked =>
        \A p \in (-2)..(StoreMaxWidth * StoreMaxHeight + 2) :
            get_block(store, p) =
                IF p \in StorePositions /\ written[p] # NotWritten
                THEN written[p] ELSE EMPTY

\* a store with offset > 0 holding a written block after a skipped one, and
\* a position rewritten
GetBlockReadsLastWriteWitness ==
    /\ ~panicked
    /\ store.dpos_offset > 0
    /\ Len(store.image) >= 3
    /\ written[store.dpos_offset] # NotWritten
    /\ get_dc(get_block(store, store.dpos_offset)) = 1
    /\ written[store.dpos_offset + 1] = NotWritten
    /\ get_dc(get_block(store, store.dpos_offset + 2)) = 1
    /\ get_block(store, store.dpos_offset - 1) = EMPTY

-----------------------------------------------------------------------------
(* Specification of merge on arbitrary lists of stores: up to MaxThreads    *)
(* threads, one component each                                              *)

\* a store holding `len` blocks from position `off` on, block p with DC p + 1
HeldStore(bw, oh, off, len) ==
    MkStore(bw, oh, off, [k \in 1..len |-> BlockOfDc(off + k)], len)

MergeInputStores ==
    { HeldStore(bw, oh, off, len) :
        bw \in 1..2, oh \in 1..2, off \in 0..MaxMergeOffset,
        len \in 0..MaxMergeLen }

\* sequences of 0..n single-component threads
RECURSIVE ThreadLists(_)
ThreadLists(n) ==
    IF n = 0 THEN {<<>>}
    ELSE LET shorter == ThreadLists(n - 1)
         IN  shorter \cup
             { Append(l, <<st>>) : l \in {x \in shorter : Len(x) = n - 1},
                                   st \in MergeInputStores }

MergeInit ==
    /\ images \in ThreadLists(MaxThreads)
    /\ written = images
    /\ merged = <<>>
    /\ args = [op |-> "merge", index |-> 0, returned |-> FALSE]
    /\ wpos = <<>> /\ hdr = <<>> /\ store = NoStore
    /\ panicked = FALSE
    /\ BlockIdle /\ CursorIdle

Merge ==
    /\ args.op = "merge" /\ ~args.returned /\ ~panicked
    /\ LET r == merge(images, args.index)
       IN  /\ images' = r.images
           /\ merged' = IF r.ok THEN <<r.merged>> ELSE merged
           /\ panicked' = ~r.ok
           /\ args' = [args EXCEPT !.returned = r.ok]
    /\ UNCHANGED <<blockVars, hdr, store, written, wpos, cursorVars>>

MergeNext == Merge

SpecMerge == MergeInit /\ [][MergeNext]_vars

\* number of blocks held by the stores of component c before thread t
RECURSIVE BlocksBefore(_, _, _)
BlocksBefore(imgs, c, t) ==
    IF t <= 1 THEN 0
    ELSE BlocksBefore(imgs, c, t - 1) + Len(imgs[t - 1][c + 1].image)

\* some store of the input does not start where the stores before it end
Discontiguous(imgs, c) ==
    \E t \in 1..Len(imgs) :
        imgs[t][c + 1].dpos_offset # BlocksBefore(imgs, c, t)

MergeCalled == args.op = "merge" /\ (args.returned \/ panicked)

(* C2: merge fails fatally, and returns no store, for every input list in   *)
(* which some store's dpos_offset differs from the number of blocks held by *)
(* the stores before it.                                                    *)
MergeRejectsDiscontiguous ==
    (MergeCalled /\ Discontiguous(written, 0)) =>
        /\ panicked
        /\ ~args.returned
        /\ merged = <<>>

\* a gap after a first store that is in place
MergeRejectsDiscontiguousWitness ==
    /\ MergeCalled
    /\ Len(written) = 2
    /\ written[1][1].dpos_offset = 0
    /\ Len(written[1][1].image) = 1
    /\ written[2][1].dpos_offset = 2
    /\ written[1][1].block_width = written[2][1].block_width
    /\ written[1][1].original_height = written[2][1].original_height
    /\ panicked

-----------------------------------------------------------------------------
(* Specification of the parallel fill: the luma rows are split into         *)
(* contiguous slices, one worker per slice holds one store per component    *)
(* built by new, the workers write their blocks in any interleaving, and    *)
(* when all are done each component is merged                               *)

NumCmp == Len(hdr)

\* a luma and a chroma geometry, each of any width and height
ParHeaders ==
    { <<luma, chroma>> :
        luma \in [bch : 1..ParMaxWidth, bcv : 1..ParMaxHeight],
        chroma \in [bch : 1..ParMaxWidth, bcv : 1..ParMaxHeight] }

\* the splits 0 = y0 < y1 < ... < yn = height of the luma rows, n <= maxn
RECURSIVE Partitions(_, _, _)
Partitions(from, height, maxn) ==
    IF maxn = 0 THEN {}
    ELSE {<<from, height>>} \cup
         UNION { { <<from>> \o p : p \in Partitions(y, height, maxn - 1) } :
                 y \in (from + 1)..(height - 1) }

Area(c) == CmpInfo(hdr, c).bch * CmpInfo(hdr, c).bcv

\* the block the workers write at position p of component c
Src(c, p) == BlockOfDc(args.base + p + c)

\* the end of worker t's positions of component c: the next worker's first
RangeEnd(imgs, t, c) ==
    IF t < Len(imgs) THEN imgs[t + 1][c + 1].dpos_offset ELSE Area(c)

\* the next write of worker t at or after position pos of component c:
\* components with nothing left are passed over; cmp = NumCmp when done
RECURSIVE NextWrite(_, _, _, _)
NextWrite(imgs, t, c, pos) ==
    IF c >= NumCmp THEN [cmp |-> NumCmp, pos |-> 0]
    ELSE IF pos < RangeEnd(imgs, t, c) THEN [cmp |-> c, pos |-> pos]
    ELSE IF c + 1 >= NumCmp THEN [cmp |-> NumCmp, pos |-> 0]
    ELSE NextWrite(imgs, t, c + 1, imgs[t][c + 2].dpos_offset)

NotMerged == <<>>

ParInit ==
    /\ hdr \in ParHeaders
    /\ \E ys \in Partitions(0, CmpInfo(hdr, 0).bcv, ParMaxThreads),
          base \in 0..MaxDc :
          /\ args = [op |-> "par", ys |-> ys, base |-> base,
                     interleaved |-> FALSE]
          /\ images = [t \in 1..(Len(ys) - 1) |->
                         [c \in 1..Len(hdr) |->
                            new(hdr, c - 1, ys[t], ys[t + 1]).store]]
    /\ wpos = [t \in 1..Len(images) |->
                 NextWrite(images, t, 0, images[t][1].dpos_offset)]
    /\ merged = [c \in 1..Len(hdr) |-> NotMerged]
    /\ written = [c \in 1..Len(hdr) |-> <<>>]
    /\ store = NoStore
    /\ panicked = FALSE
    /\ BlockIdle /\ CursorIdle

AllDone == \A t \in 1..Len(wpos) : wpos[t].cmp = NumCmp

\* worker u has written a block and has more to write
Midway(u) ==
    /\ wpos[u].cmp < NumCmp
    /\ wpos[u] # NextWrite(images, u, 0, images[u][1].dpos_offset)

\* worker t writes its next block into its own store
Worker(t) ==
    /\ ~panicked
    /\ wpos[t].cmp < NumCmp
    /\ LET c == wpos[t].cmp
           p == wpos[t].pos
           r == set_block_data(images[t][c + 1], p, Src(c, p))
       IN  /\ images' = [images EXCEPT ![t][c + 1] = r.store]
           /\ panicked' = ~r.ok
           /\ wpos' = [wpos EXCEPT ![t] = IF r.ok
                                          THEN NextWrite(images, t, c, p + 1)
                                          ELSE @]
    /\ args' = [args EXCEPT !.interleaved =
                   @ \/ \E u \in 1..Len(images) \ {t} : Midway(u)]
    /\ UNCHANGED <<blockVars, hdr, store, written, merged, cursorVars>>

\* after all workers are done: merge(images, index), once per component
MergeComponent(index) ==
    /\ ~panicked
    /\ AllDone
    /\ merged[index + 1] = NotMerged
    /\ LET r == merge(images, index)
       IN  /\ images' = r.images
           /\ merged' = IF r.ok THEN [merged EXCEPT ![index + 1] = <<r.merged>>]
                        ELSE merged
           /\ panicked' = ~r.ok
           /\ written' = [written EXCEPT ![index + 1] = images]
    /\ UNCHANGED <<blockVars, hdr, args, store, wpos, cursorVars>>

ParNext ==
    \/ \E t \in 1..Len(images) : Worker(t)
    \/ \E index \in 0..(NumCmp - 1) : MergeComponent(index)

SpecPar == ParInit /\ [][ParNext]_vars

\* store s after set_block_data of the source blocks at from .. to - 1
RECURSIVE FillRange(_, _, _, _)
FillRange(s, c, from, to) ==
    IF from >= to THEN s
    ELSE FillRange(set_block_data(s, from, Src(c, from)).store, c, from + 1, to)

\* the single unsplit store of component c receiving every write
Unsplit(c) ==
    FillRange(new(hdr, c, 0, CmpInfo(hdr, 0).bcv).store, c, 0, Area(c))

\* the store of worker t for component c as new builds it, and the end of
\* the worker's positions
InitialStore(t, c) == new(hdr, c, args.ys[t], args.ys[t + 1]).store

RangeEndOf(t, c) ==
    IF t < Len(args.ys) - 1 THEN InitialStore(t + 1, c).dpos_offset ELSE Area(c)

\* the first position of component c that worker t has not written yet
Progress(t, c) ==
    IF wpos[t].cmp > c THEN RangeEndOf(t, c)
    ELSE IF wpos[t].cmp = c THEN wpos[t].pos
    ELSE InitialStore(t, c).dpos_offset

\* the store of worker t for component c after the worker's writes up to
\* position `upto`, with no other worker running
StoreAlone(t, c, upto) ==
    FillRange(InitialStore(t, c), c, InitialStore(t, c).dpos_offset, upto)

\* the stores as the workers leave them when they run one after another
SequentialImages ==
    [t \in 1..(Len(args.ys) - 1) |->
       [c \in 1..Len(hdr) |-> StoreAlone(t, c - 1, RangeEndOf(t, c - 1))]]

(* C1: the per-thread stores of a component, completely filled with         *)
(* set_block_data and merged in row order: merge succeeds; the result's     *)
(* length is the sum of the input lengths, its dpos_offset is 0, get_block  *)
(* at every position equals get_block of the single unsplit store that      *)
(* received the same writes, and the block at slot k of an input with       *)
(* offset d is at merged position d + k.                                    *)
MergeEqualsUnsplit ==
    /\ ~panicked
    /\ \A c \in 0..(Len(merged) - 1) :
        merged[c + 1] # NotMerged =>
            LET m   == merged[c + 1][1]
                pre == written[c + 1]
            IN  /\ Len(m.image) = BlocksBefore(pre, c, Len(pre) + 1)
                /\ m.dpos_offset = 0
                /\ \A p \in (-1)..(Area(c) + 1) :
                      get_block(m, p) = get_block(Unsplit(c), p)
                /\ \A t \in 1..Len(pre) :
                      \A k \in 0..(Len(pre[t][c + 1].image) - 1) :
                         get_block(m, pre[t][c + 1].dpos_offset + k)
                            = pre[t][c + 1].image[k + 1]

\* two stores merged, the second starting past position 0 and holding at
\* least two blocks
MergeEqualsUnsplitWitness ==
    /\ Len(merged) = 2
    /\ merged[1] # NotMerged
    /\ Len(written[1]) = 2
    /\ written[1][2][1].dpos_offset >= 2
    /\ Len(written[1][2][1].image) >= 2
    /\ Len(merged[1][1].image) = Area(0)
    /\ get_dc(get_block(merged[1][1], written[1][2][1].dpos_offset + 1))
          = args.base + written[1][2][1].dpos_offset + 1

(* C8: under every interleaving of the workers' writes, no worker fails,    *)
(* each store holds at every moment what its own worker's writes so far     *)
(* give when no other worker runs, so each store ends with the length and   *)
(* contents of the run with the workers one after another, and the merge of *)
(* each component gives the result it gives on those stores.                *)
FillIsInterleavingFree ==
    /\ ~panicked
    /\ \A c \in 0..(Len(merged) - 1) :
        IF merged[c + 1] = NotMerged
        THEN \A t \in 1..Len(images) :
                /\ images[t][c + 1] = StoreAlone(t, c, Progress(t, c))
                /\ AllDone => images[t][c + 1] = SequentialImages[t][c + 1]
        ELSE /\ \A t \in 1..Len(images) :
                   written[c + 1][t][c + 1] = SequentialImages[t][c + 1]
             /\ merged[c + 1][1] = merge(SequentialImages, c).merged

\* two workers whose writes were interleaved, both done and merged
FillIsInterleavingFreeWitness ==
    /\ args.op = "par" /\ args.interleaved
    /\ AllDone
    /\ Len(images) = 2
    /\ merged[1] # NotMerged
    /\ Len(written[1][1][1].image) >= 2
    /\ Len(written[1][2][1].image) >= 2

-----------------------------------------------------------------------------
(* Specification of the traversal of one full-image store: row by row from  *)
(* row 0, each row started by off_y or by the cursor carried over from the  *)
(* row before; at each block get_blocks_mut, the block is written, then     *)
(* get_blocks, then next, has_more_in_row being false on the last block of  *)
(* the row. args.y and args.x are the loop variables of the walk.           *)

WalkInit ==
    /\ \E g \in [bch : 1..WalkMaxWidth, bcv : 1..WalkMaxHeight] :
          /\ hdr = <<g>>
          /\ store = new(hdr, 0, 0, g.bcv).store
    /\ \E base \in 0..MaxDc :
          args = [op |-> "walk", base |-> base, y |-> 0, x |-> 0]
    /\ ctx = NoCtx
    /\ phase = "seed"
    /\ visited = <<>>
    /\ result = [op |-> "none"]
    /\ written = <<>>
    /\ panicked = FALSE
    /\ BlockIdle /\ ParIdle

WalkFrame == UNCHANGED <<blockVars, hdr, parVars>>

\* ctx = image.off_y(y)
OffY ==
    /\ ~panicked /\ phase = "seed"
    /\ ctx' = off_y(store, args.y)
    /\ phase' = "fill"
    /\ result' = [op |-> "off_y"]
    /\ UNCHANGED <<args, store, visited, written, panicked>>
    /\ WalkFrame

\* the summary entries selected for a block: those of the block above and of
\* the block to the left where there is one (-1 where not asked for)
SelectedSlots(c, left_present, above_present) ==
    [above_slot    |-> IF above_present THEN neighbor_context_above(c) ELSE -1,
     nz_above_slot |-> IF above_present THEN get_non_zeros_above(c) ELSE -1,
     left_slot     |-> IF left_present THEN neighbor_context_left(c) ELSE -1,
     nz_left_slot  |-> IF left_present THEN get_non_zeros_left(c) ELSE -1]

\* ctx.get_blocks_mut(image, x > 0, y > 0), the summary entries selected for
\* the neighbours and for the block (written: the entry selected by
\* neighbor_context_here at each block visited), and the block written
\* through the reference returned for `here`
GetBlocksMut ==
    /\ ~panicked /\ phase = "fill"
    /\ LET r == BlockContext_get_blocks_mut(ctx, store, args.x > 0, args.y > 0)
       IN  /\ panicked' = ~r.ok
           /\ store' = IF r.ok
                       THEN [r.store EXCEPT !.image[r.here + 1] =
                               BlockOfDc(args.base + ctx.cur_block_index)]
                       ELSE r.store
           /\ result' = IF r.ok
                        THEN [op |-> "get_blocks_mut", above |-> r.above,
                              left |-> r.left, above_left |-> r.above_left,
                              here_pos |-> r.here + r.store.dpos_offset,
                              slots |-> SelectedSlots(ctx, args.x > 0,
                                                      args.y > 0)]
                        ELSE result
           /\ phase' = IF r.ok THEN "read" ELSE phase
           /\ visited' = IF r.ok THEN Append(visited, ctx.cur_block_index)
                         ELSE visited
           /\ written' = IF r.ok
                         THEN Append(written, neighbor_context_here(ctx))
                         ELSE written
    /\ UNCHANGED <<args, ctx>>
    /\ WalkFrame

\* ctx.get_blocks(image, x > 0, y > 0)
GetBlocks ==
    /\ ~panicked /\ phase = "read"
    /\ LET r == BlockContext_get_blocks(ctx, store, args.x > 0, args.y > 0)
       IN  /\ panicked' = ~r.ok
           /\ result' = IF r.ok
                        THEN [op |-> "get_blocks", above |-> r.above,
                              left |-> r.left, above_left |-> r.above_left,
                              here_pos |-> r.here + store.dpos_offset]
                        ELSE result
           /\ phase' = IF r.ok THEN "next" ELSE phase
    /\ UNCHANGED <<args, ctx, store, visited, written>>
    /\ WalkFrame

\* ctx.next(true): more blocks in the row
NextInRow ==
    /\ ~panicked /\ phase = "next"
    /\ args.x + 1 < ctx.block_width
    /\ LET n == next(ctx, TRUE)
       IN  /\ ctx' = n.ctx
           /\ result' = [op |-> "next", retval |-> n.retval,
                         has_more |-> TRUE, before |-> ctx]
    /\ args' = [args EXCEPT !.x = @ + 1]
    /\ phase' = "fill"
    /\ UNCHANGED <<store, visited, written, panicked>>
    /\ WalkFrame

\* ctx.next(false) on the last block of the row; the next row is walked
\* with this cursor (carry) or with a new one from off_y
NextEndOfRow(carry) ==
    /\ ~panicked /\ phase = "next"
    /\ args.x + 1 >= ctx.block_width
    /\ LET n == next(ctx, FALSE)
       IN  /\ ctx' = n.ctx
           /\ result' = [op |-> "next", retval |-> n.retval,
                         has_more |-> FALSE, before |-> ctx]
    /\ args' = [args EXCEPT !.x = 0, !.y = @ + 1]
    /\ phase' = IF args.y + 1 >= store.original_height THEN "done"
                ELSE IF carry THEN "fill" ELSE "seed"
    /\ UNCHANGED <<store, visited, written, panicked>>
    /\ WalkFrame

WalkNext ==
    \/ OffY
    \/ GetBlocksMut
    \/ GetBlocks
    \/ NextInRow
    \/ \E carry \in BOOLEAN : NextEndOfRow(carry)

SpecWalk == WalkInit /\ [][WalkNext]_vars

\* the cursor is on a block of the walk
AtBlock == phase \in {"fill", "read", "next"}

\* the position of block (y, x)
WalkPos == store.block_width * args.y + args.x

(* C5: the walk visits every block position 0 .. block_width * h - 1 once,  *)
(* in increasing order: off_y(y) is at block_width * y, the k-th next of    *)
(* row y returns block_width * y + k, and the walk never fails.             *)
WalkIsRowMajor ==
    /\ ~panicked
    /\ \A i \in 1..Len(visited) : visited[i] = i - 1
    /\ AtBlock => /\ ctx.cur_block_index = WalkPos
                  /\ Len(visited) = IF phase = "fill" THEN WalkPos
                                    ELSE WalkPos + 1
    /\ result.op = "off_y" => ctx.cur_block_index = store.block_width * args.y
    /\ result.op = "next" => result.retval = WalkPos
    /\ phase = "done" =>
          Len(visited) = store.block_width * store.original_height

\* the walk of a store of at least 3 rows and 2 columns is done
WalkIsRowMajorWitness ==
    /\ phase = "done"
    /\ store.block_width >= 2
    /\ store.original_height >= 3
    /\ Len(visited) = store.block_width * store.original_height
    /\ visited[Len(visited)] = Len(visited) - 1

\* the block at position p of the store
BlockAt(p) == store.image[p + 1]

(* C6: at block p = block_width * y + x of a store with dpos_offset 0 whose *)
(* positions 0..p are materialized, get_blocks_mut and get_blocks with      *)
(* above_present = (y > 0) and left_present = (x > 0) return here = block   *)
(* p, above = block p - block_width if y > 0, left = block p - 1 if x > 0,  *)
(* above_left = block p - block_width - 1 if y > 0 and x > 0, and the zero  *)
(* block for each absent neighbour.                                         *)
NeighboursOfBlock ==
    result.op \in {"get_blocks_mut", "get_blocks"} =>
        /\ store.dpos_offset = 0
        /\ Len(store.image) = WalkPos + 1
        /\ \A q \in 0..WalkPos : get_dc(BlockAt(q)) = args.base + q
        /\ result.here_pos = WalkPos
        /\ result.above = IF args.y > 0 THEN BlockAt(WalkPos - store.block_width)
                          ELSE EMPTY
        /\ result.left = IF args.x > 0 THEN BlockAt(WalkPos - 1) ELSE EMPTY
        /\ result.above_left =
              IF args.y > 0 /\ args.x > 0
              THEN BlockAt(WalkPos - store.block_width - 1) ELSE EMPTY

\* block_width 4, block i holding dc = i: block 5 gets above dc = 1, left
\* dc = 4, above_left dc = 0 from get_blocks
NeighboursOfBlockWitness ==
    /\ result.op = "get_blocks"
    /\ store.block_width = 4
    /\ args.base = 0
    /\ result.here_pos = 5
    /\ get_dc(BlockAt(5)) = 5
    /\ get_dc(result.above) = 1
    /\ get_dc(result.left) = 4
    /\ get_dc(result.above_left) = 0

(* C7: with has_more_in_row false exactly on the last block of each row,    *)
(* cur_num_non_zeros_index and above_num_non_zero_index are within          *)
(* 0 .. 2 * block_width - 1 at every block of the walk, for every height.   *)
SummaryIndicesInTwoRows ==
    ctx # NoCtx =>
        /\ ctx.cur_num_non_zeros_index \in 0..(2 * ctx.block_width - 1)
        /\ ctx.above_num_non_zero_index \in 0..(2 * ctx.block_width - 1)

\* the last block of the third row, after the folds at the ends of rows 0
\* and 1: both indices at the end of their halves
SummaryIndicesInTwoRowsWitness ==
    /\ AtBlock
    /\ args.op = "walk" /\ args.y = 2
    /\ ctx.block_width >= 2
    /\ args.x = ctx.block_width - 1
    /\ ctx.cur_num_non_zeros_index = ctx.block_width - 1
    /\ ctx.above_num_non_zero_index = 2 * ctx.block_width - 1

\* the summary indices of the cursor before the last next, both advanced by 1
AdvancedCur == result.before.cur_num_non_zeros_index + 1
AdvancedAbove == result.before.above_num_non_zero_index + 1

\* the last step was next(false), at the end of a row
RowEnded == result.op = "next" /\ ~result.has_more

\* the value a summary index had at the first block of the row just ended,
\* given its value advanced past the last block
BeganRowAt(advanced) == advanced - store.block_width

\* the start of the half of the two-row buffer that index i lies in
HalfStart(i) == IF i < store.block_width THEN 0 ELSE store.block_width

(* C11 as stated: after next(false) has advanced both summary indices, the  *)
(* numerically smaller of the two is wound back by 2 * block_width, to the  *)
(* start of the half it began the row in, and the other is left as advanced.*)
FoldWindsSmaller ==
    RowEnded =>
        IF AdvancedCur < AdvancedAbove
        THEN /\ ctx.cur_num_non_zeros_index = AdvancedCur - 2 * store.block_width
             /\ ctx.cur_num_non_zeros_index = HalfStart(BeganRowAt(AdvancedCur))
             /\ ctx.above_num_non_zero_index = AdvancedAbove
        ELSE /\ ctx.above_num_non_zero_index =
                    AdvancedAbove - 2 * store.block_width
             /\ ctx.above_num_non_zero_index =
                    HalfStart(BeganRowAt(AdvancedAbove))
             /\ ctx.cur_num_non_zeros_index = AdvancedCur

(* C11: after next(false) has advanced both summary indices, the            *)
(* numerically larger of the two (above when cur < above, else cur) is      *)
(* wound back by 2 * block_width; it began the row at block_width, the      *)
(* start of the second half, and lands on 0, the start of the first half;   *)
(* the smaller is left as advanced, at block_width, having begun at 0.      *)
FoldWindsLarger ==
    RowEnded =>
        IF AdvancedCur < AdvancedAbove
        THEN /\ ctx.above_num_non_zero_index =
                    AdvancedAbove - 2 * store.block_width
             /\ BeganRowAt(AdvancedAbove) = store.block_width
             /\ ctx.above_num_non_zero_index = 0
             /\ ctx.cur_num_non_zeros_index = AdvancedCur
             /\ BeganRowAt(AdvancedCur) = 0
             /\ ctx.cur_num_non_zeros_index = store.block_width
        ELSE /\ ctx.cur_num_non_zeros_index = AdvancedCur - 2 * store.block_width
             /\ BeganRowAt(AdvancedCur) = store.block_width
             /\ ctx.cur_num_non_zeros_index = 0
             /\ ctx.above_num_non_zero_index = AdvancedAbove
             /\ BeganRowAt(AdvancedAbove) = 0
             /\ ctx.above_num_non_zero_index = store.block_width

\* the end of row 1 of a store 3 blocks wide: cur 6 and above 3 after the
\* advance, cur wound back to 0
FoldWindsLargerWitness ==
    /\ RowEnded
    /\ store.block_width = 3
    /\ args.y = 2
    /\ AdvancedCur = 6 /\ AdvancedAbove = 3
    /\ ctx.cur_num_non_zeros_index = 0
    /\ ctx.above_num_non_zero_index = 3

-----------------------------------------------------------------------------
(* Specification of a free cursor: off_y(y) for any row y, then any number  *)
(* of next calls with either value of has_more_in_row; at any point the     *)
(* neighbour positions the cursor hands to the store are computed for any   *)
(* combination of left_present and above_present. args.n counts the calls   *)
(* of next.                                                                 *)

CursorInit ==
    /\ \E w \in 1..CurMaxWidth :
          /\ hdr = <<[bch |-> w, bcv |-> CurMaxRow + 1]>>
          /\ store = new(hdr, 0, 0, CurMaxRow + 1).store
    /\ args = [op |-> "cursor", n |-> 0]
    /\ ctx = NoCtx
    /\ phase = "seed"
    /\ visited = <<>>
    /\ result = [op |-> "none"]
    /\ written = <<>>
    /\ panicked = FALSE
    /\ BlockIdle /\ ParIdle

CursorFrame ==
    UNCHANGED <<blockVars, hdr, store, written, parVars, visited, panicked>>

\* ctx = image.off_y(y)
CursorOffY(y) ==
    /\ phase = "seed"
    /\ ctx' = off_y(store, y)
    /\ phase' = "run"
    /\ result' = [op |-> "off_y"]
    /\ UNCHANGED args
    /\ CursorFrame

\* ctx.next(has_more)
CursorNext(has_more) ==
    /\ phase = "run"
    /\ args.n < MaxNexts
    /\ LET n == next(ctx, has_more)
       IN  /\ ctx' = n.ctx
           /\ result' = [op |-> "next", retval |-> n.retval,
                         has_more |-> has_more, before |-> ctx]
    /\ args' = [args EXCEPT !.n = @ + 1]
    /\ UNCHANGED phase
    /\ CursorFrame

\* the positions get_blocks_mut and get_blocks of the cursor pass to the
\* store for the flags given
ForwardPositions(left_present, above_present) ==
    /\ phase = "run"
    /\ result' = [op |-> "forward",
                  left_present |-> left_present,
                  above_present |-> above_present,
                  above |-> AbovePos(ctx, above_present),
                  left |-> LeftPos(ctx, left_present),
                  above_left |-> AboveLeftPos(ctx, left_present, above_present),
                  here |-> ctx.cur_block_index]
    /\ UNCHANGED <<args, ctx, phase>>
    /\ CursorFrame

CursorNext_ ==
    \/ \E y \in 0..CurMaxRow : CursorOffY(y)
    \/ \E has_more \in BOOLEAN : CursorNext(has_more)
    \/ \E left_present, above_present \in BOOLEAN :
          ForwardPositions(left_present, above_present)

SpecCursor == CursorInit /\ [][CursorNext_]_vars

\* the cursor is on a block of row 0 other than the first
InRowZeroAfterNext ==
    0 < ctx.cur_block_index /\ ctx.cur_block_index < ctx.block_width

\* the positions forwarded as present
ForwardedPresent ==
    (IF result.above_present THEN {result.above} ELSE {})
    \cup (IF result.left_present THEN {result.left} ELSE {})
    \cup (IF result.above_present /\ result.left_present
          THEN {result.above_left} ELSE {})

(* C12 as stated: in every cursor state reached by off_y(y) and any number  *)
(* of next calls, above_block_index is -1 or cur_block_index - block_width, *)
(* and every neighbour position forwarded as present is strictly less than  *)
(* cur_block_index, for every combination of the two flags.                 *)
AboveIsAlwaysBehind ==
    phase = "run" =>
        /\ ctx.above_block_index \in
              {-1, ctx.cur_block_index - ctx.block_width}
        /\ result.op = "forward" =>
              \A p \in ForwardedPresent : p < ctx.cur_block_index

(* C12: in every cursor state reached by off_y(y) and any number of next    *)
(* calls, above_block_index is -1 at position 0, cur_block_index +          *)
(* block_width (a block below) at the other positions of row 0, and         *)
(* cur_block_index - block_width from row 1 on; the left position forwarded *)
(* as present is cur_block_index - 1; the above and above_left positions    *)
(* forwarded as present are strictly less than cur_block_index except at    *)
(* the positions 0 < cur_block_index < block_width, where above is greater  *)
(* than cur_block_index and above_left is at least cur_block_index.         *)
AboveIsBehindPastRowZero ==
    phase = "run" =>
        /\ ctx.above_block_index =
              IF ctx.cur_block_index = 0 THEN -1
              ELSE IF InRowZeroAfterNext
                   THEN ctx.cur_block_index + ctx.block_width
                   ELSE ctx.cur_block_index - ctx.block_width
        /\ result.op = "forward" =>
              /\ result.left_present =>
                    result.left = ctx.cur_block_index - 1
              /\ ~InRowZeroAfterNext =>
                    \A p \in ForwardedPresent : p < ctx.cur_block_index
              /\ InRowZeroAfterNext /\ result.above_present =>
                    result.above > ctx.cur_block_index
              /\ InRowZeroAfterNext /\ result.above_present
                    /\ result.left_present =>
                    result.above_left >= ctx.cur_block_index

\* both flags set at position 4 of a store 3 blocks wide, reached from
\* off_y(0): above 1, left 3, above_left 0
AboveIsBehindPastRowZeroWitness ==
    /\ phase = "run"
    /\ result.op = "forward"
    /\ result.above_present /\ result.left_present
    /\ ctx.block_width = 3
    /\ ctx.cur_block_index = 4
    /\ args.n = 4
    /\ result.above = 1 /\ result.left = 3 /\ result.above_left = 0

\* the summary entry selected as "here" at the block of position p
HereSlotOf(p) == written[p + 1]

(* C13: in the row-by-row walk, the summary entry selected by               *)
(* neighbor_context_here at block (y, x) is the one selected by             *)
(* neighbor_context_above and get_non_zeros_above at (y + 1, x) and by      *)
(* neighbor_context_left and get_non_zeros_left at (y, x + 1), and no block *)
(* visited strictly between (y, x) and (y + 1, x) selects it as its "here". *)
HereSlotFeedsNeighbours ==
    result.op = "get_blocks_mut" =>
        /\ Len(written) = WalkPos + 1
        /\ HereSlotOf(WalkPos) = neighbor_context_here(ctx)
        /\ args.y > 0 =>
              LET up == WalkPos - store.block_width
              IN  /\ result.slots.above_slot = HereSlotOf(up)
                  /\ result.slots.nz_above_slot = HereSlotOf(up)
                  /\ \A q \in (up + 1)..(WalkPos - 1) :
                        HereSlotOf(q) # HereSlotOf(up)
        /\ args.x > 0 =>
              /\ result.slots.left_slot = HereSlotOf(WalkPos - 1)
              /\ result.slots.nz_left_slot = HereSlotOf(WalkPos - 1)

\* block (2, 1) of a store 3 blocks wide: above is entry 4, written at
\* (1, 1), left is entry 0, written at (2, 0), here is entry 1
HereSlotFeedsNeighboursWitness ==
    /\ result.op = "get_blocks_mut"
    /\ store.block_width = 3
    /\ args.y = 2 /\ args.x = 1
    /\ result.slots.above_slot = 4 /\ HereSlotOf(4) = 4
    /\ result.slots.left_slot = 0 /\ HereSlotOf(6) = 0
    /\ HereSlotOf(7) = 1

(* C17: the cursor reached from off_y(y) by block_width calls of next, with *)
(* has_more_in_row true on all but the last, equals off_y(y + 1) in all     *)
(* five fields, for every row y and every block_width >= 1; a row may so be *)
(* started with the cursor carried over from the row before.                *)
RowEndIsNextRowStart ==
    /\ RowEnded => ctx = off_y(store, args.y)
    /\ AtBlock /\ args.x = 0 => ctx = off_y(store, args.y)

\* the end of row 2 of a store 3 blocks wide, after the folds of rows 0 and
\* 1: the cursor is off_y(3)
RowEndIsNextRowStartWitness ==
    /\ RowEnded
    /\ store.block_width = 3
    /\ args.y = 3
    /\ result.before.cur_block_index = 8
    /\ ctx = [block_width |-> 3, cur_block_index |-> 9,
              above_block_index |-> 6, cur_num_non_zeros_index |-> 3,
              above_num_non_zero_index |-> 0]

\* two stores of component c differ in block_width or in original_height
GeometryDiffers(imgs, c) ==
    \E t, u \in 1..Len(imgs) :
        \/ imgs[t][c + 1].block_width # imgs[u][c + 1].block_width
        \/ imgs[t][c + 1].original_height # imgs[u][c + 1].original_height

(* C16: merge fails fatally, and returns no store, whenever two stores of   *)
(* the list differ in block_width or in original_height, contiguous         *)
(* dpos_offsets or not; the store a successful merge returns has the        *)
(* block_width and the original_height of every input store.                *)
MergeRejectsMixedGeometry ==
    /\ (MergeCalled /\ GeometryDiffers(written, 0)) =>
          /\ panicked
          /\ ~args.returned
          /\ merged = <<>>
    /\ (args.op = "merge" /\ args.returned) =>
          \A t \in 1..Len(written) :
              /\ merged[1].block_width = written[t][1].block_width
              /\ merged[1].original_height = written[t][1].original_height

\* two stores in place, one block each, the same block_width and different
\* original_height: merge fails
MergeRejectsMixedGeometryWitness ==
    /\ MergeCalled
    /\ Len(written) = 2
    /\ ~Discontiguous(written, 0)
    /\ Len(written[1][1].image) = 1 /\ Len(written[2][1].image) = 1
    /\ written[1][1].block_width = written[2][1].block_width
    /\ written[1][1].original_height # written[2][1].original_height
    /\ panicked /\ merged = <<>>

\* store s with its blocks moved out
Emptied(s) == [s EXCEPT !.image = <<>>]

(* C19: a successful merge(images, index) leaves every input store of       *)
(* component index with zero blocks and its dpos_offset, block_width and    *)
(* original_height as they were, and leaves the stores of every other       *)
(* component of every thread as they were (written[index + 1] is the list   *)
(* as it was handed to that merge; a store of another component is emptied  *)
(* only by the merge of its own component).                                 *)
MergeDrainsOnlyItsComponent ==
    \A index \in 0..(Len(merged) - 1) :
        merged[index + 1] # NotMerged =>
            LET pre == written[index + 1]
            IN  /\ Len(images) = Len(pre)
                /\ \A t \in 1..Len(images) :
                      /\ images[t][index + 1] = Emptied(pre[t][index + 1])
                      /\ \A d \in 0..(Len(merged) - 1) \ {index} :
                            images[t][d + 1] =
                               IF merged[d + 1] = NotMerged
                               THEN pre[t][d + 1]
                               ELSE Emptied(pre[t][d + 1])

\* luma merged and chroma not: every luma store held blocks and is empty,
\* the second at its offset past 0, and every chroma store holds its blocks
MergeDrainsOnlyItsComponentWitness ==
    /\ Len(merged) = 2
    /\ merged[1] # NotMerged /\ merged[2] = NotMerged
    /\ Len(images) >= 2
    /\ images[2][1].dpos_offset > 0
    /\ \A t \in 1..Len(images) :
          /\ written[1][t][1].image # <<>>
          /\ images[t][1].image = <<>>
          /\ images[t][2].image # <<>>
          /\ images[t][2] = written[1][t][2]

(* C18: for every split 0 = y0 < ... < yn = luma block height and every     *)
(* component, the stores built by new have: the first dpos_offset 0, each   *)
(* capacity at least the number of positions up to the next store's         *)
(* dpos_offset (the component's area for the last); no worker writing its   *)
(* positions fails, no store grows past its capacity, and the filled stores *)
(* start where the stores before them end, as merge requires.               *)
PartitionStoresFit ==
    /\ ~panicked
    /\ \A t \in 1..Len(images) : \A c \in 0..(Len(hdr) - 1) :
          LET s0 == InitialStore(t, c)
          IN  /\ t = 1 => s0.dpos_offset = 0
              /\ s0.capacity >= RangeEndOf(t, c) - s0.dpos_offset
              /\ RangeEndOf(Len(images), c) = Area(c)
              /\ images[t][c + 1].capacity = s0.capacity
              /\ images[t][c + 1].dpos_offset = s0.dpos_offset
              /\ Len(images[t][c + 1].image) <= s0.capacity
    /\ AllDone =>
          \A c \in 0..(Len(merged) - 1) :
              merged[c + 1] = NotMerged => ~Discontiguous(images, c)

\* three workers, a chroma store with room for a block and no position of
\* its own, every worker done and chroma merged
PartitionStoresFitWitness ==
    /\ Len(images) = 3
    /\ AllDone
    /\ Len(merged) = 2 /\ merged[2] # NotMerged
    /\ \E t \in 1..3 :
          /\ InitialStore(t, 1).capacity = 1
          /\ RangeEndOf(t, 1) = InitialStore(t, 1).dpos_offset
    /\ \E t \in 1..3 :
          /\ InitialStore(t, 0).capacity >= 2
          /\ InitialStore(t, 0).capacity =
                RangeEndOf(t, 0) - InitialStore(t, 0).dpos_offset

-----------------------------------------------------------------------------
(* Specification of the fill operations on one store: a store built by new  *)
(* for a row range, then up to MaxFillOps calls of set_block_data,          *)
(* get_block_mut, get_blocks_mut and get_block at any position; a block is  *)
(* written through the reference get_block_mut and get_blocks_mut return.   *)
(* written is the store as it was before the last call, lastOp the call     *)
(* (value: its position), blk the block get_block returned.                 *)

FillGeometries == [bch : 1..FillMaxWidth, bcv : 1..FillMaxHeight]

FillPositions == (-1)..(FillMaxWidth * FillMaxHeight)

FillInit ==
    /\ \E luma_bcv \in 1..FillMaxHeight, g \in FillGeometries :
          hdr = <<[bch |-> g.bch, bcv |-> luma_bcv], g>>
    /\ \E ys \in 0..FillMaxHeight, ye \in 0..FillMaxHeight :
          /\ ys < ye /\ ye <= CmpInfo(hdr, 0).bcv
          /\ args = [op |-> "new", component |-> 1, luma_y_start |-> ys,
                     luma_y_end |-> ye, returned |-> TRUE]
          /\ store = new(hdr, 1, ys, ye).store
    /\ written = store
    /\ lastOp = NoOp
    /\ panicked = FALSE
    /\ blk = EMPTY /\ oldBlk = EMPTY /\ ParIdle /\ CursorIdle

FillFrame == UNCHANGED <<oldBlk, hdr, args, parVars, cursorVars>>

\* the call recorded as the last one
Called(op, dpos) == [op |-> op, index |-> lastOp.index + 1, value |-> dpos]

FillSetBlockData(dpos, data) ==
    /\ ~panicked /\ lastOp.index < MaxFillOps
    /\ LET r == set_block_data(store, dpos, data)
       IN  /\ store' = r.store
           /\ panicked' = ~r.ok
    /\ written' = store
    /\ lastOp' = Called("set_block_data", dpos)
    /\ UNCHANGED blk
    /\ FillFrame

\* *image.get_block_mut(dpos) = data
FillGetBlockMut(dpos, data) ==
    /\ ~panicked /\ lastOp.index < MaxFillOps
    /\ LET r == get_block_mut(store, dpos)
       IN  /\ store' = IF r.ok
                       THEN [r.store EXCEPT !.image[r.slot + 1] = data]
                       ELSE r.store
           /\ panicked' = ~r.ok
    /\ written' = store
    /\ lastOp' = Called("get_block_mut", dpos)
    /\ UNCHANGED blk
    /\ FillFrame

\* image.get_blocks_mut(above, left, above_left, here) with the neighbours a
\* cursor of this store passes for the flags, and a block of DC MaxDc
\* written to `here`
FillGetBlocksMut(here, left_present, above_present) ==
    /\ ~panicked /\ lastOp.index < MaxFillOps
    /\ LET c == [NoCtx EXCEPT !.block_width = store.block_width,
                              !.cur_block_index = here,
                              !.above_block_index = here - store.block_width]
           r == BlockContext_get_blocks_mut(c, store, left_present,
                                            above_present)
       IN  /\ store' = IF r.ok
                       THEN [r.store EXCEPT !.image[r.here + 1] =
                                              BlockOfDc(MaxDc)]
                       ELSE r.store
           /\ panicked' = ~r.ok
    /\ written' = store
    /\ lastOp' = Called("get_blocks_mut", here)
    /\ UNCHANGED blk
    /\ FillFrame

FillGetBlock(dpos) ==
    /\ ~panicked /\ lastOp.index < MaxFillOps
    /\ blk' = get_block(store, dpos)
    /\ written' = store
    /\ lastOp' = Called("get_block", dpos)
    /\ UNCHANGED <<store, panicked>>
    /\ FillFrame

FillNext ==
    \/ \E dpos \in FillPositions, data \in DataBlocks :
          FillSetBlockData(dpos, data)
    \/ \E dpos \in FillPositions, data \in DataBlocks :
          FillGetBlockMut(dpos, data)
    \/ \E here \in FillPositions, left_present, above_present \in BOOLEAN :
          FillGetBlocksMut(here, left_present, above_present)
    \/ \E dpos \in FillPositions : FillGetBlock(dpos)

SpecFill == FillInit /\ [][FillNext]_vars

\* the operations that materialize blocks
FillOps == {"set_block_data", "get_block_mut", "get_blocks_mut"}

WrittenSlot ==
    IF lastOp.op \in FillOps /\ ~panicked
    THEN lastOp.value - written.dpos_offset + 1
    ELSE 0

\* the capacity new computed for the store
CapacityAtConstruction ==
    new(hdr, args.component, args.luma_y_start, args.luma_y_end).store.capacity

(* C15: over every sequence of set_block_data, get_block_mut,               *)
(* get_blocks_mut and get_block calls on one store, the number of stored    *)
(* blocks never decreases, every block stored before a call is in the same  *)
(* slot after it (the slot the call writes excepted), the blocks a call     *)
(* adds are zero blocks, the number of stored blocks never exceeds the      *)
(* capacity computed at construction, and a fill at a slot pos -            *)
(* dpos_offset >= that capacity fails fatally; get_block changes nothing.   *)
StoreGrowsWithinCapacity ==
    lastOp.op # "none" =>
        /\ Len(store.image) >= Len(written.image)
        /\ \A k \in 1..Len(written.image) :
              k = WrittenSlot \/ store.image[k] = written.image[k]
        /\ \A k \in (Len(written.image) + 1)..Len(store.image) :
              k = WrittenSlot \/ store.image[k] = EMPTY
        /\ store.capacity = CapacityAtConstruction
        /\ Len(store.image) <= CapacityAtConstruction
        /\ store.dpos_offset = written.dpos_offset
        /\ store.block_width = written.block_width
        /\ store.original_height = written.original_height
        /\ (/\ lastOp.op \in FillOps
            /\ lastOp.value - written.dpos_offset >= CapacityAtConstruction)
              => panicked
        /\ lastOp.op = "get_block" => store = written /\ ~panicked

\* a store with room for two blocks holding one: set_block_data two slots
\* further on fails, the store holding two blocks
StoreGrowsWithinCapacityWitness ==
    /\ lastOp.op = "set_block_data"
    /\ lastOp.index = 2
    /\ CapacityAtConstruction = 2
    /\ Len(written.image) = 1
    /\ get_dc(written.image[1]) = 1
    /\ lastOp.value - written.dpos_offset = 2
    /\ panicked
    /\ Len(store.image) = 2
    /\ store.image[1] = written.image[1]

=============================================================================
